---- MODULE Spec2Model ----
(***************************************************************************)
(* Reservation / contribution engine of giftly-app.                        *)
(*                                                                         *)
(* The store is PostgreSQL behind Prisma (README, DEPLOYMENT.md), used at  *)
(* its default isolation level READ COMMITTED: every statement sees the    *)
(* rows committed when it runs, an UPDATE/DELETE waits for the row lock of *)
(* an open transaction and re-evaluates its WHERE on the committed row, an *)
(* open transaction's writes are invisible to others until COMMIT.         *)
(*                                                                         *)
(* One action is one store statement together with the handler code that   *)
(* runs after it up to the next await.  Statements of different requests   *)
(* interleave freely.                                                      *)
(***************************************************************************)
EXTENDS Integers, Sequences, FiniteSets, Bags, TLC

\* ---------------------------------------------------------------- bounds
MaxInFlight == 2    \* requests that can be in flight together
MaxCalls    == 3    \* requests started in one behaviour
MaxMoney    == 2    \* prices and contribution amounts are 1..MaxMoney
MaxRacers   == 3    \* concurrent calls in the race scenarios are 2..MaxRacers
MaxItems    == 2    \* a viewed wishlist holds 0..MaxItems items
MaxSeqCalls == 4    \* requests of one sequential behaviour

\* ------------------------------------------------------------- identities
NoUser   == "anonymous"              \* req.user undefined (optionalAuth)
OwnerId  == "owner"                  \* wishlist.ownerId
OtherId  == "kim"                    \* another registered user
Users    == {OwnerId, OtherId}
EmailOf(u) == IF u = OwnerId THEN "owner@giftly" ELSE "kim@giftly"

GroupLabel == "Group contribution"   \* contributions.ts:76
NULL       == "<null>"               \* SQL NULL in Item.reservedBy
NoPrice    == 0                      \* Item.price NULL (falsy in `price ? :`)

\* A request as the handlers see it: the decoded token (or none) and the
\* nickname of the body ("" when absent).
AuthReq(u)  == [user |-> u, nickname |-> ""]
GuestReq(n) == [user |-> NoUser, nickname |-> n]

Requests ==
    { AuthReq(OwnerId), AuthReq(OtherId),
      GuestReq(GroupLabel), GuestReq(EmailOf(OwnerId)), GuestReq("") }

\* req.user?.email || nickname        (item routes, contributions.ts:26)
Identity(req) == IF req.user # NoUser THEN EmailOf(req.user) ELSE req.nickname

\* ------------------------------------------------------------------ rows
NoRow == [exists |-> FALSE, price |-> NoPrice, isReserved |-> FALSE,
          reservedBy |-> NULL, collectedAmount |-> 0, hypeCount |-> 0]

NewItem(price) == [NoRow EXCEPT !.exists = TRUE, !.price = price]

\* A request being handled: the request, the handler's position and its
\* locals (snap: the row read by findUnique; row: the row as the open
\* transaction sees it) and, once it has returned, the response.
\* incOnReserved and funded are history fields.
IdleCall == [op |-> "none", req |-> GuestReq(""), amount |-> 0,
             pc |-> "idle", snap |-> NoRow, row |-> NoRow,
             status |-> 0, error |-> "",
             incOnReserved |-> FALSE, funded |-> FALSE]

Statuses == {200, 400, 403, 404, 500}

VARIABLES
    item,       \* the committed Item row (NoRow once deleted)
    contribs,   \* committed Contribution rows of the item
    calls,      \* bag of the requests in flight, each with its locals
    events,     \* events handed to socket.io, in emission order
    started,    \* requests started so far
    last,       \* the request that returned last, with its response
    tally,      \* history: responses sent so far, per status code
    fundings,   \* history: funding transitions written so far
    stores,     \* wishlist view: the two store states compared
    viewer,     \* wishlist view: req.user?.id of the requester
    resps,      \* wishlist view: the response computed from each store
    conns,      \* socket.io: the connected sockets
    rooms,      \* socket.io: the sockets joined to each wishlist's room
    wire,       \* socket.io: what the last operation sent, and to whom
    shrine,     \* /api/shrine: the user's shrine column, the user's items
                \* and the PUT request being handled
    limiter,    \* rate limiting: the clock, the buckets map and the last answer
    client      \* WishlistPage: a viewer's local copy of the item and its
                \* request in flight

vars == <<item, contribs, calls, events, started, last, tally, fundings,
          stores, viewer, resps, conns, rooms, wire,
          shrine, limiter, client>>

engineVars == <<item, contribs, calls, events, started, last, tally, fundings>>

viewVars == <<stores, viewer, resps>>

socketVars == <<conns, rooms, wire>>

\* What lies around the engine, the view and the sockets.
peripheryVars == <<shrine, limiter, client>>

InFlight == BagToSet(calls)

\* An open transaction holds the row's update lock from its UPDATE to COMMIT,
\* and FOR KEY SHARE on the row from its INSERT of a referencing row.
RowLocked == \E c \in InFlight : c.pc \in {"c_fund", "c_commit"}

KeyShared == \E c \in InFlight : c.pc \in {"c_incr", "c_fund", "c_commit"}

\* ------------------------------------------------------------ call records
\* The handler returns: res.status(status).json({error}) or the success body.
Finish(c, status, error) ==
    [c EXCEPT !.pc = "done", !.status = status, !.error = error,
              !.snap = NoRow, !.row = NoRow]

\* Request c sends its response.
Return(c, status, error) ==
    /\ last' = Finish(c, status, error)
    /\ tally' = [tally EXCEPT ![status] = @ + 1]
    /\ calls' = calls (-) SetToBag({c})
    /\ UNCHANGED viewVars
    /\ UNCHANGED socketVars
    /\ UNCHANGED peripheryVars

\* Request c goes on to its next statement as d.
Goto(c, d) ==
    /\ calls' = (calls (-) SetToBag({c})) (+) SetToBag({d})
    /\ UNCHANGED <<last, tally>>
    /\ UNCHANGED viewVars
    /\ UNCHANGED socketVars
    /\ UNCHANGED peripheryVars

Ev(type, scope, reservedBy, n, flag) ==
    [type |-> type, scope |-> scope, reservedBy |-> reservedBy, n |-> n,
     flag |-> flag]

\* The payloads of the emit sites; scope "all" is io.emit, "room" is
\* io.to(`wishlist:${id}`).emit.
ReservedEvent(label) == Ev("ITEM_RESERVED", "all", label, 0, TRUE)

UnreservedEvent == Ev("ITEM_UNRESERVED", "all", NULL, 0, FALSE)

DeletedEvent == Ev("ITEM_DELETED", "all", NULL, 0, FALSE)

HypeEvent(n) == Ev("hype", "room", NULL, n, FALSE)

ContributionEvent(n, flag) == Ev("CONTRIBUTION_ADDED", "room", NULL, n, flag)

\* reserverId === item.wishlist.ownerId / req.user?.id === item.wishlist.ownerId
IsOwner(req) == req.user = OwnerId

\* -------------------------------------------------- ItemService.reserveItem
\* Variant: the update without its isReserved condition.
ReserveWhereAny(row) == row.exists

\* updateMany where { id, isReserved: false }
ReserveWhere(row) == row.exists /\ row.isReserved = FALSE

\* Variant: the update that sets the flag and not the holder.
ReserveDataFlagOnly(row, label) == [row EXCEPT !.isReserved = TRUE]

\* data { isReserved: true, reservedBy: reserverIdentifier }
ReserveData(row, label) ==
    [row EXCEPT !.isReserved = TRUE, !.reservedBy = label]

ReserveFind(c) ==
    /\ c.pc = "r_find"
    /\ IF ~item.exists THEN Return(c, 404, "Item not found")
       ELSE IF IsOwner(c.req)
            THEN Return(c, 403, "Cannot reserve your own items")
            ELSE Goto(c, [c EXCEPT !.pc = "r_update"])
    /\ UNCHANGED <<item, contribs, events, started, fundings>>

\* Variant: the holder is written first and the conflict decided afterwards.
ReserveUpdateBlind(c) ==
    /\ c.pc = "r_update"
    /\ ~RowLocked
    /\ item.exists
    /\ item' = ReserveData(item, Identity(c.req))
    /\ IF item.isReserved
       THEN Return(c, 400, "Item is already reserved")
       ELSE Goto(c, [c EXCEPT !.pc = "r_refetch"])
    /\ UNCHANGED <<contribs, events, started, fundings>>

ReserveUpdate(c) ==
    /\ c.pc = "r_update"
    /\ ~RowLocked
    /\ IF ReserveWhere(item)
       THEN /\ item' = ReserveData(item, Identity(c.req))
            /\ Goto(c, [c EXCEPT !.pc = "r_refetch"])
       ELSE /\ item' = item
            /\ Return(c, 400, "Item is already reserved")
    /\ UNCHANGED <<contribs, events, started, fundings>>

ReserveRefetch(c) ==
    /\ c.pc = "r_refetch"
    /\ IF ~item.exists
       THEN /\ Return(c, 404, "Item not found")
            /\ events' = events
       ELSE /\ Return(c, 200, "")
            /\ events' = Append(events, ReservedEvent(Identity(c.req)))
    /\ UNCHANGED <<item, contribs, started, fundings>>

\* ------------------------------------------------ ItemService.unreserveItem
\* Variant: the update without its reservedBy condition.
UnreserveWhereAnyHolder(row, who) == row.exists /\ row.isReserved = TRUE

\* updateMany where { id, reservedBy: requesterIdentifier, isReserved: true }
UnreserveWhere(row, who) ==
    row.exists /\ row.reservedBy = who /\ row.isReserved = TRUE

\* data { isReserved: false, reservedBy: null }
UnreserveData(row) == [row EXCEPT !.isReserved = FALSE, !.reservedBy = NULL]

UnreserveFind(c) ==
    /\ c.pc = "u_find"
    /\ IF ~item.exists THEN Return(c, 404, "Item not found")
       ELSE IF Identity(c.req) = ""
            THEN Return(c, 403, "Only the person who reserved can unreserve")
            ELSE Goto(c, [c EXCEPT !.pc = "u_update"])
    /\ UNCHANGED <<item, contribs, events, started, fundings>>

UnreserveUpdate(c) ==
    /\ c.pc = "u_update"
    /\ ~RowLocked
    /\ IF UnreserveWhere(item, Identity(c.req))
       THEN /\ item' = UnreserveData(item)
            /\ Goto(c, [c EXCEPT !.pc = "u_refetch"])
       ELSE /\ item' = item
            /\ Return(c, 403, "Only the person who reserved can unreserve")
    /\ UNCHANGED <<contribs, events, started, fundings>>

UnreserveRefetch(c) ==
    /\ c.pc = "u_refetch"
    /\ IF ~item.exists
       THEN /\ Return(c, 404, "Item not found")
            /\ events' = events
       ELSE /\ Return(c, 200, "")
            /\ events' = Append(events, UnreservedEvent)
    /\ UNCHANGED <<item, contribs, started, fundings>>

\* --------------------------------------------------- ItemService.deleteItem
DeleteFind(c) ==
    /\ c.pc = "d_find"
    /\ IF ~item.exists \/ ~IsOwner(c.req)
       THEN Return(c, 500, "Not authorized to delete this item")
       ELSE Goto(c, [c EXCEPT !.pc = "d_delete"])
    /\ UNCHANGED <<item, contribs, events, started, fundings>>

\* Variant: ITEM_DELETED is emitted whether or not a row was deleted.
DeleteRowAlwaysEmits(c) ==
    /\ c.pc = "d_delete"
    /\ ~RowLocked /\ ~KeyShared
    /\ item' = NoRow
    /\ contribs' = <<>>
    /\ IF item.exists THEN Return(c, 200, "")
                      ELSE Return(c, 500, "Record to delete does not exist")
    /\ events' = Append(events, DeletedEvent)
    /\ UNCHANGED <<started, fundings>>

\* Variant: the Item row is deleted and its contributions are left behind.
DeleteRowNoCascade(c) ==
    /\ c.pc = "d_delete"
    /\ ~RowLocked /\ ~KeyShared
    /\ IF ~item.exists
       THEN /\ Return(c, 500, "Record to delete does not exist")
            /\ UNCHANGED <<item, contribs, events>>
       ELSE /\ item' = NoRow
            /\ contribs' = contribs
            /\ Return(c, 200, "")
            /\ events' = Append(events, DeletedEvent)
    /\ UNCHANGED <<started, fundings>>

\* prisma.item.delete: DELETE waits for every lock on the row; the foreign
\* key Contribution_itemId_fkey cascades to the item's contributions.
DeleteRow(c) ==
    /\ c.pc = "d_delete"
    /\ ~RowLocked /\ ~KeyShared
    /\ IF ~item.exists
       THEN /\ Return(c, 500, "Record to delete does not exist")
            /\ UNCHANGED <<item, contribs, events>>
       ELSE /\ item' = NoRow
            /\ contribs' = <<>>
            /\ Return(c, 200, "")
            /\ events' = Append(events, DeletedEvent)
    /\ UNCHANGED <<started, fundings>>

\* ----------------------------------------------------- ItemService.hypeItem
HypeData(row) == [row EXCEPT !.hypeCount = @ + 1]

HypeUpdate(c) ==
    /\ c.pc = "h_update"
    /\ ~RowLocked
    /\ IF ~item.exists
       THEN /\ Return(c, 500, "Failed to hype item")
            /\ UNCHANGED <<item, events>>
       ELSE /\ item' = HypeData(item)
            /\ Return(c, 200, "")
            /\ events' = Append(events, HypeEvent(item'.hypeCount))
    /\ UNCHANGED <<contribs, started, fundings>>

\* ------------------------------- POST /api/contributions ($transaction)
\* Variant: the total is set to the amount instead of raised by it.
CollectedAfterReset(cur, snap, amount) == amount

\* Variant: the total is capped at the price.
CollectedAfterClamped(cur, snap, amount) ==
    IF cur.price # NoPrice /\ cur.collectedAmount + amount > cur.price
    THEN cur.price
    ELSE cur.collectedAmount + amount

\* Variant: a read-modify-write on the row read at line 32.
CollectedAfterStale(cur, snap, amount) == snap.collectedAmount + amount

\* collectedAmount: { increment: data.amount } -- applied by the store to the
\* row as it is when the UPDATE runs, not to the row read at line 32.
CollectedAfter(cur, snap, amount) == cur.collectedAmount + amount

\* Variant: a missing price is compared like a price of 0.
IsFullyFundedNullAsZero(row) == row.collectedAmount >= row.price

\* isFullyFunded = updatedItem.price ? newCollected >= Number(price) : false
IsFullyFunded(row) ==
    IF row.price # NoPrice THEN row.collectedAmount >= row.price ELSE FALSE

\* Variant: the transition without its isReserved condition.
FundingDueAlways(row) == IsFullyFunded(row)

\* Variant: no funding transition at all.
FundingDueNever(row) == FALSE

\* if (isFullyFunded && !updatedItem.isReserved)
FundingDue(row) == IsFullyFunded(row) /\ ~row.isReserved

\* data { isReserved: true, reservedBy: 'Group contribution' }
FundingData(row) ==
    [row EXCEPT !.isReserved = TRUE, !.reservedBy = GroupLabel]

\* contribution.create data
ContributionOf(c) ==
    [userId |-> c.req.user,
     contributorName |-> Identity(c.req),
     amount |-> c.amount]

\* BEGIN; item.findUnique; the three throws roll the empty transaction back.
ContribFind(c) ==
    /\ c.pc = "c_find"
    /\ IF ~item.exists THEN Return(c, 404, "Item not found")
       ELSE IF IsOwner(c.req)
            THEN Return(c, 403, "Cannot contribute to your own items")
       ELSE IF item.isReserved
            THEN Return(c, 400, "Item is already reserved/fully funded")
            ELSE Goto(c, [c EXCEPT !.pc = "c_create", !.snap = item])
    /\ UNCHANGED <<item, contribs, events, started, fundings>>

\* contribution.create: the INSERT checks Contribution_itemId_fkey against the
\* committed Item row and key-share locks it until the transaction ends; on a
\* missing row the statement fails and the transaction rolls back.
ContribCreate(c) ==
    /\ c.pc = "c_create"
    /\ IF ~item.exists
       THEN /\ Return(c, 400, "Foreign key constraint failed")
       ELSE /\ Goto(c, [c EXCEPT !.pc = "c_incr"])
    /\ UNCHANGED <<item, contribs, events, started, fundings>>

\* item.update { collectedAmount: { increment } }: takes the row lock, returns
\* the updated row; then lines 68-71 decide on the funding transition.
ContribIncrement(c) ==
    /\ c.pc = "c_incr"
    /\ ~RowLocked
    /\ LET updatedItem == [item EXCEPT !.collectedAmount =
                              CollectedAfter(item, c.snap, c.amount)]
       IN Goto(c, [c EXCEPT !.row = updatedItem,
                            !.incOnReserved = item.isReserved,
                            !.pc = IF FundingDue(updatedItem)
                                   THEN "c_fund" ELSE "c_commit"])
    /\ UNCHANGED <<item, contribs, events, started, fundings>>

\* item.update { isReserved: true, reservedBy: 'Group contribution' }
ContribFund(c) ==
    /\ c.pc = "c_fund"
    /\ Goto(c, [c EXCEPT !.row = FundingData(@), !.funded = TRUE,
                                !.pc = "c_commit"])
    /\ fundings' = fundings + 1
    /\ UNCHANGED <<item, contribs, events, started>>

\* COMMIT, then the emit of lines 90-100 and res.json.
ContribCommit(c) ==
    /\ c.pc = "c_commit"
    /\ item' = c.row
    /\ contribs' = Append(contribs, ContributionOf(c))
    /\ events' = Append(events,
          ContributionEvent(c.row.collectedAmount, IsFullyFunded(c.row)))
    /\ Return(c, 200, "")
    /\ UNCHANGED <<started, fundings>>

\* ------------------------------------------------------- request arrival
\* The synchronous part of each route before its first await.
NewCall(op, req, amount, pc) ==
    [IdleCall EXCEPT !.op = op, !.req = req, !.amount = amount, !.pc = pc]

\* item routes, POST /:id/reserve
ArriveReserve(req) ==
    IF Identity(req) = ""
    THEN Finish(NewCall("reserve", req, 0, "r_find"),
                400, "Please provide a nickname")
    ELSE NewCall("reserve", req, 0, "r_find")

\* item routes, POST /:id/unreserve
ArriveUnreserve(req) == NewCall("unreserve", req, 0, "u_find")

\* item routes, DELETE /:id (behind authenticateToken)
ArriveDelete(req) == NewCall("delete", req, 0, "d_find")

\* item routes, POST /:id/hype
ArriveHype(req) == NewCall("hype", req, 0, "h_update")

\* contributions.ts POST /
ArriveContribute(req, amount) ==
    IF Identity(req) = ""
    THEN Finish(NewCall("contribute", req, amount, "c_find"),
                400, "Please provide a nickname")
    ELSE NewCall("contribute", req, amount, "c_find")

\* Who contributes: the owner (signed in, or as a guest), another user, and a
\* guest who gives no nickname.
Contributors ==
    {AuthReq(OwnerId), AuthReq(OtherId), GuestReq(EmailOf(OwnerId)),
     GuestReq("")}

Arrivals ==
    {ArriveReserve(r) : r \in Requests}
    \cup {ArriveUnreserve(r) : r \in Requests}
    \cup {ArriveDelete(AuthReq(u)) : u \in Users}
    \cup {ArriveHype(GuestReq(""))}
    \cup {ArriveContribute(r, a) : r \in Contributors, a \in 1..MaxMoney}

\* A request out of `arrivals` arrives while fewer than `limit` are in flight:
\* it is answered at once or starts being handled.
Admit(arrivals, limit, maxCalls) ==
    /\ started < maxCalls
    /\ BagCardinality(calls) < limit
    /\ started' = started + 1
    /\ \E a \in arrivals :
          IF a.pc = "done"
          THEN /\ last' = a
               /\ tally' = [tally EXCEPT ![a.status] = @ + 1]
               /\ calls' = calls
          ELSE /\ calls' = calls (+) SetToBag({a})
               /\ UNCHANGED <<last, tally>>
    /\ UNCHANGED <<item, contribs, events, fundings>>
    /\ UNCHANGED viewVars
    /\ UNCHANGED socketVars
    /\ UNCHANGED peripheryVars

Start == Admit(Arrivals, MaxInFlight, MaxCalls)

\* ---------------------------------------------------------- specification
Prices == {NoPrice} \cup 1..MaxMoney

InitRest ==
    /\ contribs = <<>>
    /\ events = <<>>
    /\ last = IdleCall
    /\ tally = [s \in Statuses |-> 0]
    /\ fundings = 0

\* The wishlists that have a room: the item's wishlist and another one.
Wishlists == {"W1", "W2"}

\* No socket is connected.
SocketsIdle ==
    /\ conns = {}
    /\ rooms = [w \in Wishlists |-> {}]
    /\ wire = <<>>

\* ------------------------------------------------------------ /api/shrine
\* Max items allowed in the shrine
SHRINE_LIMIT == 4

\* JSON.stringify of an array of strings, as its sequence of tokens.
Stringify(ids) ==
    <<"[">>
    \o [k \in 1..(IF ids = <<>> THEN 0 ELSE 2 * Len(ids) - 1) |->
          IF k % 2 = 1 THEN ids[(k + 1) \div 2] ELSE ","]
    \o <<"]">>

\* JSON.parse of such a text.
Parse(text) ==
    LET body == SubSeq(text, 2, Len(text) - 1)
    IN  [k \in 1..((Len(body) + 1) \div 2) |-> body[2 * k - 1]]

NoPut == [ids |-> <<>>, pc |-> "idle", status |-> 0]

\* shrineItemIds: the User row's column (JSON text, default '[]');
\* myItems: the items that exist in the user's wishlists;
\* put: the PUT request being handled; ops: requests started so far.
NoShrine ==
    [shrineItemIds |-> Stringify(<<>>), myItems |-> {}, put |-> NoPut, ops |-> 0]

\* No shrine request is being handled.
ShrineIdle == shrine = NoShrine

\* --------------------------------------------------------- rate limiting
\* Strings that are cut and joined at ':' and ',' are sequences of pieces.
Colon == ":"

\* `${options.keyPrefix}:${getClientIp(req)}`
BucketKey(keyPrefix, ip) == keyPrefix \o <<Colon>> \o ip

\* now: Date.now(); windowMs: the limiters' window; buckets: the Map, as
\* the set of its entries; admitted (history): per key, the requests let
\* through since its bucket was created; served: the last answer, numbered.
NoLimiter ==
    [now |-> 0, windowMs |-> 0, max |-> <<>>, buckets |-> {}, admitted |-> {},
     served |-> [n |-> 0, key |-> <<>>, status |-> 0]]

\* No request has passed a rate limiter.
LimiterIdle == limiter = NoLimiter

\* ----------------------------------------------- WishlistPage (a viewer)
\* item: the item as the page holds it; previousItem: the copy kept by the
\* request in flight; req: that request; pending: whether its response is
\* still to come; seen: how many of the published events the socket handler
\* has processed.
NoClient ==
    [item |-> [isReserved |-> FALSE, reservedBy |-> NULL],
     previousItem |-> [isReserved |-> FALSE, reservedBy |-> NULL],
     req |-> GuestReq(""), pending |-> FALSE, seen |-> 0]

\* No page is open.
ClientIdle == client = NoClient

PeripheryIdle == ShrineIdle /\ LimiterIdle /\ ClientIdle

\* No wishlist view is being compared.
ViewIdle ==
    /\ stores = <<>>
    /\ viewer = NoUser
    /\ resps = <<>>
    /\ SocketsIdle
    /\ PeripheryIdle

Init ==
    /\ item \in {NewItem(pr) : pr \in Prices}
    /\ calls = EmptyBag
    /\ started = 0
    /\ InitRest
    /\ ViewIdle

\* A request arrives, or a request in flight runs its next statement.
Next ==
    \/ Start
    \/ \E c \in InFlight : ReserveFind(c)
    \/ \E c \in InFlight : ReserveUpdate(c)
    \/ \E c \in InFlight : ReserveRefetch(c)
    \/ \E c \in InFlight : UnreserveFind(c)
    \/ \E c \in InFlight : UnreserveUpdate(c)
    \/ \E c \in InFlight : UnreserveRefetch(c)
    \/ \E c \in InFlight : DeleteFind(c)
    \/ \E c \in InFlight : DeleteRow(c)
    \/ \E c \in InFlight : HypeUpdate(c)
    \/ \E c \in InFlight : ContribFind(c)
    \/ \E c \in InFlight : ContribCreate(c)
    \/ \E c \in InFlight : ContribIncrement(c)
    \/ \E c \in InFlight : ContribFund(c)
    \/ \E c \in InFlight : ContribCommit(c)

Spec == Init /\ [][Next]_vars

\* ===================================================================
\*                     Properties of the engine (Spec)
\* ===================================================================

\* A response has just been sent for an operation `op`.
Returned(op) == last.pc = "done" /\ last.op = op

\* Failure kinds as the routes report them.
IsForbidden(c) == c.status = 403

IsConflict(c) ==
    c.error \in {"Item is already reserved",
                 "Item is already reserved/fully funded"}

\* The caller is the owner of the wishlist: signed in as the owner, or a guest
\* who gives the owner's own identity string as the nickname.
ByOwner(req) ==
    \/ req.user = OwnerId
    \/ req.user = NoUser /\ req.nickname = EmailOf(OwnerId)

\* C2: in every committed store state the item has isReserved true if and
\* only if reservedBy is non-null.
C2_ReservedIffHolder ==
    item.exists => (item.isReserved <=> item.reservedBy # NULL)

\* C2 witness: a reserve has succeeded and the item is held by its caller.
C2_Witness ==
    /\ Returned("reserve") /\ last.status = 200
    /\ item.isReserved /\ item.reservedBy = Identity(last.req)

\* C4 (as claimed): every item whose price is set and whose collectedAmount
\* has reached the price is reserved with reservedBy = 'Group contribution'.
C4_FundedImpliesGroupReserved ==
    (item.exists /\ IsFullyFunded(item))
        => (item.isReserved /\ item.reservedBy = GroupLabel)

\* C6 (as claimed): over the lifetime of the item the funding transition is
\* written at most once.
C6_FundingAtMostOnce == fundings <= 1

\* C7 (as claimed): every contribute call that commits made its increment on
\* a row whose isReserved was false.
C7_NoContributionOnReserved ==
    (Returned("contribute") /\ last.status = 200) => ~last.incOnReserved

\* C8: a step takes the item from reserved to unreserved only as the
\* conditional update of an unreserve call whose requester is the current
\* holder; an unreserve call that fails changes nothing of the item and emits
\* no event; ITEM_UNRESERVED is emitted only by an unreserve that succeeded.
C8_UnreserveOnlyByHolder ==
    [][ /\ (item.exists /\ item'.exists /\ item.isReserved /\ ~item'.isReserved)
            => \E c \in InFlight :
                  /\ c.op = "unreserve" /\ c.pc = "u_update"
                  /\ Identity(c.req) = item.reservedBy
                  /\ item' = [item EXCEPT !.isReserved = FALSE,
                                          !.reservedBy = NULL]
                  /\ calls' = (calls (-) SetToBag({c}))
                                (+) SetToBag({[c EXCEPT !.pc = "u_refetch"]})
        /\ (tally' # tally /\ last'.op = "unreserve" /\ last'.status # 200)
            => (item' = item /\ events' = events)
        /\ (Len(events') > Len(events)
              /\ events'[Len(events')].type = "ITEM_UNRESERVED")
            => (last'.op = "unreserve" /\ last'.status = 200
                  /\ tally' # tally)
      ]_vars

\* C8 witness: an unreserve by someone who is not the holder has been refused
\* and the item is still held by the holder.
C8_Witness ==
    /\ Returned("unreserve") /\ last.status = 403
    /\ Identity(last.req) # ""
    /\ item.isReserved /\ item.reservedBy # Identity(last.req)

\* C9 (as claimed): every reserve or contribute call made by the owner of the
\* wishlist is answered Forbidden.
C9_OwnerAlwaysForbidden ==
    ((Returned("reserve") \/ Returned("contribute")) /\ ByOwner(last.req))
        => IsForbidden(last)

\* ===================================================================
\*        Race scenarios: the same actions from a fixed set of calls
\* ===================================================================
RECURSIVE SeqToBag(_)
SeqToBag(s) ==
    IF s = <<>> THEN EmptyBag
    ELSE SetToBag({Head(s)}) (+) SeqToBag(Tail(s))

HasEvent(type) == \E i \in 1..Len(events) : events[i].type = type

\* Callers who are not the owner.
Racers == {AuthReq(OtherId), GuestReq(GroupLabel), GuestReq("Sam")}

\* ---- N reserve calls are in flight on the unreserved item
InitReserveRace ==
    /\ item \in {NewItem(pr) : pr \in Prices}
    /\ \E n \in 2..MaxRacers :
         \E s \in [1..n -> {ArriveReserve(r) : r \in Racers}] :
            /\ calls = SeqToBag(s)
            /\ started = n
    /\ InitRest
    /\ ViewIdle

NextReserveRace ==
    \/ \E c \in InFlight : ReserveFind(c)
    \/ \E c \in InFlight : ReserveUpdate(c)
    \/ \E c \in InFlight : ReserveRefetch(c)

SpecReserveRace == InitReserveRace /\ [][NextReserveRace]_vars

\* C1: of N >= 2 concurrent reserve calls by non-owners on the unreserved
\* item, exactly one succeeds and every other one fails with 'Item is already
\* reserved'; afterwards the item is held under the winner's label.
C1_ExactlyOneReserveWins ==
    /\ (Returned("reserve") /\ last.status # 200)
          => (last.status = 400 /\ last.error = "Item is already reserved")
    /\ (Returned("reserve") /\ last.status = 200)
          => (item.isReserved /\ item.reservedBy = Identity(last.req))
    /\ calls = EmptyBag
          => /\ tally[200] = 1
             /\ tally[400] = started - 1
             /\ item.isReserved
             /\ Len(events) = 1
             /\ events[1].type = "ITEM_RESERVED"
             /\ events[1].reservedBy = item.reservedBy

\* C1 witness: all calls of a race of at least two have returned, one with
\* success and the others with the conflict.
C1_Witness ==
    /\ calls = EmptyBag /\ started >= 2
    /\ tally[200] = 1 /\ tally[400] = started - 1
    /\ item.isReserved

\* ---- N contribute calls of the same amount are in flight on the fresh item
InitContribRace ==
    /\ item \in {NewItem(pr) : pr \in Prices}
    /\ \E n \in 2..MaxRacers : \E a \in 1..MaxMoney :
         \E s \in [1..n -> {ArriveContribute(r, a) : r \in Racers}] :
            /\ calls = SeqToBag(s)
            /\ started = n
    /\ InitRest
    /\ ViewIdle

NextContribRace ==
    \/ \E c \in InFlight : ContribFind(c)
    \/ \E c \in InFlight : ContribCreate(c)
    \/ \E c \in InFlight : ContribIncrement(c)
    \/ \E c \in InFlight : ContribFund(c)
    \/ \E c \in InFlight : ContribCommit(c)

SpecContribRace == InitContribRace /\ [][NextContribRace]_vars

\* C3: when N concurrent contribute calls of amount a on an item with
\* collectedAmount 0 have all completed successfully, collectedAmount is N*a.
C3_NoLostUpdate ==
    (calls = EmptyBag /\ tally[200] = started)
        => /\ item.collectedAmount = started * last.amount
           /\ Len(contribs) = started

\* C3 witness: at least two contribute calls overlapped (the item is funded
\* past its price, which only overlapping calls can do) and all succeeded.
C3_Witness ==
    /\ calls = EmptyBag /\ started >= 2 /\ tally[200] = started
    /\ item.price # NoPrice
    /\ item.collectedAmount - last.amount >= item.price

\* ---- a threshold-crossing contribute and a manual reserve are in flight
InitFundRace ==
    /\ \E pr \in 1..MaxMoney : \E c0 \in 0..(pr - 1) :
         /\ item = [NewItem(pr) EXCEPT !.collectedAmount = c0]
         /\ contribs = IF c0 = 0 THEN <<>>
                       ELSE <<ContributionOf(ArriveContribute(AuthReq(OtherId), c0))>>
         /\ \E a \in (pr - c0)..MaxMoney : \E r1, r2 \in Racers :
              calls = SetToBag({ArriveReserve(r1)})
                        (+) SetToBag({ArriveContribute(r2, a)})
    /\ started = 2
    /\ events = <<>>
    /\ last = IdleCall
    /\ tally = [s \in Statuses |-> 0]
    /\ fundings = 0
    /\ ViewIdle

NextFundRace ==
    \/ \E c \in InFlight : ReserveFind(c)
    \/ \E c \in InFlight : ReserveUpdate(c)
    \/ \E c \in InFlight : ReserveRefetch(c)
    \/ \E c \in InFlight : ContribFind(c)
    \/ \E c \in InFlight : ContribCreate(c)
    \/ \E c \in InFlight : ContribIncrement(c)
    \/ \E c \in InFlight : ContribFund(c)
    \/ \E c \in InFlight : ContribCommit(c)

SpecFundRace == InitFundRace /\ [][NextFundRace]_vars

C5_State ==
    /\ fundings <= 1
    /\ \A c \in InFlight : c.pc = "c_fund" => ~item.isReserved
    /\ (Returned("reserve") /\ last.status # 200)
          => last.error = "Item is already reserved"
    /\ calls = EmptyBag
          => /\ item.isReserved
             /\ HasEvent("ITEM_RESERVED") # (fundings = 1)
             /\ HasEvent("ITEM_RESERVED")
                   => \E i \in 1..Len(events) :
                         /\ events[i].type = "ITEM_RESERVED"
                         /\ events[i].reservedBy = item.reservedBy
             /\ fundings = 1
                   => (item.reservedBy = GroupLabel /\ tally[400] = 1)

C5_Step ==
    (tally' # tally /\ last'.op = "contribute" /\ last'.status # 200)
        => /\ \E c \in InFlight : c.op = "contribute" /\ c.pc = "c_find"
           /\ item.isReserved
           /\ UNCHANGED <<item, contribs, events>>

\* C5: when a threshold-crossing contribute races a manual reserve on the
\* unreserved item, exactly one of the two reservation writes takes effect:
\* either the reserve succeeds and the item keeps the reserver's label, or the
\* funding write sets 'Group contribution' and the reserve fails with 'Item is
\* already reserved'.  The funding write never runs on a held item, and the
\* contribute fails only at its own first read, when the reserve had already
\* committed, never after it.
C5_ReserveXorFunding == []C5_State /\ [][C5_Step]_vars

\* C5 witness: the reserve won between the contribute's check and its
\* increment; both calls returned success, the threshold is reached and the
\* funding write was skipped.
C5_Witness ==
    /\ calls = EmptyBag /\ tally[200] = 2 /\ fundings = 0
    /\ IsFullyFunded(item) /\ HasEvent("ITEM_RESERVED")

\* ===================================================================
\*        GET /wishlists/:id and the owner's spoiler filter
\* ===================================================================
NoWishlist == [exists |-> FALSE, isPublic |-> FALSE, items |-> <<>>]

\* What other users' reserve, unreserve and contribute calls leave on an
\* item: the holder, the contribution rows and their running total.
Gift(who, amount) == [userId |-> NoUser, contributorName |-> who, amount |-> amount]

HiddenStates ==
    { [isReserved |-> FALSE, reservedBy |-> NULL,
       collectedAmount |-> 0, contributions |-> <<>>],
      [isReserved |-> TRUE, reservedBy |-> EmailOf(OtherId),
       collectedAmount |-> 0, contributions |-> <<>>],
      [isReserved |-> FALSE, reservedBy |-> NULL,
       collectedAmount |-> 1, contributions |-> <<Gift("Sam", 1)>>],
      [isReserved |-> TRUE, reservedBy |-> GroupLabel,
       collectedAmount |-> 2, contributions |-> <<Gift("Sam", 1), Gift("Sam", 1)>>] }

\* The Item row of price pr with the fields h, joined with its contributions.
ItemWith(pr, h) ==
    [price |-> pr, hypeCount |-> 0,
     isReserved |-> h.isReserved, reservedBy |-> h.reservedBy,
     collectedAmount |-> h.collectedAmount, contributions |-> h.contributions]

\* contributions: select without userId
SelectContribution(k) == [contributorName |-> k.contributorName, amount |-> k.amount]

IncludeItem(it) ==
    [it EXCEPT !.contributions =
        [i \in 1..Len(it.contributions) |-> SelectContribution(it.contributions[i])]]

\* Variant: the filter without the reset of collectedAmount.
SpoilerFilterKeepsTotal(it) ==
    [it EXCEPT !.isReserved = FALSE, !.reservedBy = NULL, !.contributions = <<>>]

\* The forEach body applied to the owner's copy of an item.
SpoilerFilter(it) ==
    [it EXCEPT !.isReserved = FALSE, !.reservedBy = NULL,
               !.contributions = <<>>, !.collectedAmount = 0]

NotFoundResponse == [status |-> 404, isOwner |-> FALSE, isPublic |-> FALSE, items |-> <<>>]

\* The handler's response for requester u on wishlist row w.
GetWishlist(w, u) ==
    IF ~w.exists THEN NotFoundResponse
    ELSE LET isOwner  == u = OwnerId
             included == [i \in 1..Len(w.items) |-> IncludeItem(w.items[i])]
         IN  IF ~w.isPublic /\ ~isOwner THEN NotFoundResponse
             ELSE [status   |-> 200,
                   isOwner  |-> isOwner,
                   isPublic |-> w.isPublic,
                   items    |-> IF isOwner
                                THEN [i \in 1..Len(included) |-> SpoilerFilter(included[i])]
                                ELSE included]

\* The requester fetches the wishlist, once against each store state.
ViewWishlist ==
    /\ resps = <<>>
    /\ resps' = [k \in 1..Len(stores) |-> GetWishlist(stores[k], viewer)]
    /\ UNCHANGED <<item, contribs, calls, events, started, last, tally, fundings,
                   stores, viewer>>
    /\ UNCHANGED socketVars
    /\ UNCHANGED peripheryVars

\* Two store states that agree on everything but the hidden fields of items.
InitView ==
    /\ item = NoRow
    /\ calls = EmptyBag
    /\ started = 0
    /\ InitRest
    /\ viewer \in Users \cup {NoUser}
    /\ resps = <<>>
    /\ SocketsIdle
    /\ PeripheryIdle
    /\ \/ stores = <<NoWishlist, NoWishlist>>
       \/ \E pub \in BOOLEAN : \E n \in 0..MaxItems :
            \E pr \in [1..n -> Prices] : \E hA, hB \in [1..n -> HiddenStates] :
               stores = << [exists |-> TRUE, isPublic |-> pub,
                            items |-> [i \in 1..n |-> ItemWith(pr[i], hA[i])]],
                           [exists |-> TRUE, isPublic |-> pub,
                            items |-> [i \in 1..n |-> ItemWith(pr[i], hB[i])]] >>

NextView == ViewWishlist

SpecView == InitView /\ [][NextView]_vars

\* C10: the view returned to the wishlist's owner is the same for any two
\* store states that differ only in items' isReserved, reservedBy,
\* collectedAmount and contribution rows, and every item in it shows
\* isReserved = false, reservedBy = null, collectedAmount = 0 and no
\* contributions.
C10_OwnerViewIndependent ==
    (resps # <<>> /\ viewer = OwnerId /\ stores[1].exists)
        => /\ resps[1] = resps[2]
           /\ resps[1].status = 200
           /\ Len(resps[1].items) = Len(stores[1].items)
           /\ \A i \in 1..Len(resps[1].items) :
                 /\ resps[1].items[i].isReserved = FALSE
                 /\ resps[1].items[i].reservedBy = NULL
                 /\ resps[1].items[i].collectedAmount = 0
                 /\ resps[1].items[i].contributions = <<>>

\* C10 witness: the owner has fetched a wishlist whose two store states
\* differ, one holding a reserved, funded item with contributions.
C10_Witness ==
    /\ resps # <<>> /\ viewer = OwnerId /\ stores[1].exists
    /\ stores[1] # stores[2]
    /\ \E i \in 1..Len(stores[1].items) :
          /\ stores[1].items[i].isReserved
          /\ stores[1].items[i].collectedAmount > 0
          /\ stores[1].items[i].contributions # <<>>
          /\ ~stores[2].items[i].isReserved

\* ===================================================================
\*        Failure paths, events and counters of the engine
\* ===================================================================
\* The request that returns in this step.
Returning(c) ==
    /\ tally' # tally
    /\ calls' = calls (-) SetToBag({c})
    /\ last' = Finish(c, last'.status, last'.error)

\* C12: a call that returns a failure leaves the item and the contribution
\* rows as they would be without it: the failing step writes nothing, a
\* contribute fails only before anything of it is committed, and a reserve
\* or unreserve that fails after its own update does so only because the
\* item has been deleted meanwhile, its write gone with the row.
C12_FailureWritesNothing ==
    [][ (tally' # tally /\ last'.status # 200)
          => /\ item' = item
             /\ contribs' = contribs
             /\ \A c \in InFlight :
                   Returning(c)
                     => /\ c.pc \in {"r_refetch", "u_refetch"} => ~item.exists
                        /\ c.op = "contribute" => c.pc \in {"c_find", "c_create"}
      ]_vars

\* C12 witness: a contribute has failed at its second statement, after its
\* first had run, because the item was deleted meanwhile.
C12_Witness ==
    /\ Returned("contribute")
    /\ last.error = "Foreign key constraint failed"
    /\ ~item.exists

\* ---- reserve and contribute calls handled one after the other
SeqArrivals ==
    {ArriveReserve(r) : r \in Requests}
    \cup {ArriveContribute(r, a) : r \in Contributors \cup Racers, a \in 1..MaxMoney}

StartSequential == Admit(SeqArrivals, 1, MaxSeqCalls)

NextSequential ==
    \/ StartSequential
    \/ \E c \in InFlight : ReserveFind(c)
    \/ \E c \in InFlight : ReserveUpdate(c)
    \/ \E c \in InFlight : ReserveRefetch(c)
    \/ \E c \in InFlight : ContribFind(c)
    \/ \E c \in InFlight : ContribCreate(c)
    \/ \E c \in InFlight : ContribIncrement(c)
    \/ \E c \in InFlight : ContribFund(c)
    \/ \E c \in InFlight : ContribCommit(c)

SpecSequential == Init /\ [][NextSequential]_vars

\* The caller is neither the signed-in owner nor without an identity.
PlainCaller(req) == req.user # OwnerId /\ Identity(req) # ""

C16_State ==
    /\ fundings <= 1
    /\ IsFullyFunded(item) => fundings = 1
    /\ IsFullyFunded(item) => (item.isReserved /\ item.reservedBy = GroupLabel)
    /\ (/\ ~IsFullyFunded(item)
        /\ ~HasEvent("ITEM_RESERVED")
        /\ \A c \in InFlight : c.pc # "r_refetch") => ~item.isReserved

C16_Step ==
    (IsFullyFunded(item) /\ tally' # tally)
        => /\ last'.status # 200
           /\ UNCHANGED <<item, contribs, events>>
           /\ PlainCaller(last'.req) => IsConflict(last')

\* C16 (amended): once sequential contributions have brought collectedAmount
\* to the price, the item is reserved by 'Group contribution'; every later
\* reserve or contribute fails and changes nothing, with the conflict error
\* for a caller who is not the signed-in owner and gives an identity; until
\* the threshold is reached and nobody reserves, the item stays unreserved.
C16_FundedItemIsClosed == []C16_State /\ [][C16_Step]_vars

\* C16 as stated: every later reserve or contribute, by any identity, fails
\* with the conflict error.
C16_AnyIdentityConflict ==
    [][ (IsFullyFunded(item) /\ tally' # tally) => IsConflict(last') ]_vars

\* C16 witness: two contributions reached the price one after the other and
\* a later reserve by another user was refused with the conflict.
C16_Witness ==
    /\ Returned("reserve") /\ IsConflict(last) /\ PlainCaller(last.req)
    /\ Len(contribs) = 2 /\ contribs[1].amount < item.price
    /\ IsFullyFunded(item) /\ item.reservedBy = GroupLabel

\* The event kind each operation publishes.
EventOf(op) ==
    CASE op = "reserve"    -> "ITEM_RESERVED"
      [] op = "unreserve"  -> "ITEM_UNRESERVED"
      [] op = "contribute" -> "CONTRIBUTION_ADDED"
      [] op = "hype"       -> "hype"
      [] op = "delete"     -> "ITEM_DELETED"
      [] OTHER             -> "none"

\* The statement of each operation after which its mutation is committed.
CommittedAt == {"r_refetch", "u_refetch", "c_commit", "h_update", "d_delete"}

C17_Step ==
    /\ (tally' # tally /\ last'.status = 200)
          => /\ Len(events') = Len(events) + 1
             /\ SubSeq(events', 1, Len(events)) = events
             /\ LET e == events'[Len(events')] IN
                  /\ e.type = EventOf(last'.op)
                  /\ last'.op = "reserve" => e.reservedBy = Identity(last'.req)
                  /\ last'.op = "contribute" => e.n = item'.collectedAmount
                  /\ last'.op = "hype" => e.n = item'.hypeCount
             /\ \A c \in InFlight : Returning(c) => c.pc \in CommittedAt
    /\ (tally' # tally /\ last'.status # 200) => events' = events
    /\ events' # events => (tally' # tally /\ last'.status = 200)

\* C17: a call that succeeds publishes exactly one event, of its own kind and
\* with its payload (the holder label, the new collectedAmount, the new
\* hypeCount), in the step that follows its committed mutation; a call that
\* fails publishes none, and nothing else publishes.
C17_OneEventPerSuccess == [][C17_Step]_vars

\* C17 witness: three calls of different kinds have succeeded and three
\* events of their kinds are published.
C17_Witness ==
    /\ tally[200] = 3 /\ Len(events) = 3
    /\ events[1].type = "CONTRIBUTION_ADDED"
    /\ events[2].type = "hype"
    /\ events[3].type = "ITEM_DELETED"

\* C18: the CONTRIBUTION_ADDED event of a contribute carries the flag true
\* exactly when that contribute wrote the funding transition; so no event
\* carries it when the item was reserved manually.
C18_FlagIffTransition ==
    (Returned("contribute") /\ last.status = 200)
        => /\ events # <<>>
           /\ events[Len(events)].type = "CONTRIBUTION_ADDED"
           /\ events[Len(events)].flag = last.funded

\* C19: collectedAmount is never negative, and no step between two states in
\* which the item exists lowers it.
C19_CollectedMonotone ==
    /\ [](item.collectedAmount >= 0)
    /\ [][ (item.exists /\ item'.exists)
              => item'.collectedAmount >= item.collectedAmount ]_vars

\* C19 witness: two contributions and a hype have succeeded and the total is
\* the sum of the two amounts.
C19_Witness ==
    /\ item.exists /\ Len(contribs) = 2 /\ item.hypeCount = 1
    /\ item.collectedAmount = contribs[1].amount + contribs[2].amount

\* C20: a hype on an existing item succeeds and raises hypeCount by exactly
\* one, leaving every other field of the item and the contribution rows
\* alone; a hype on a missing item fails with 404 and changes nothing.
C20_HypeContract ==
    [][ \A c \in InFlight :
          (Returning(c) /\ c.op = "hype")
             => /\ contribs' = contribs
                /\ IF item.exists
                   THEN /\ last'.status = 200
                        /\ item' = [item EXCEPT !.hypeCount = @ + 1]
                   ELSE /\ last'.status = 404
                        /\ item' = item
      ]_vars

\* ===================================================================
\*        Order of events: an unreserve racing the next reserve
\* ===================================================================
\* The item was reserved by h, whose reserve has returned; h's unreserve and
\* the reserve of r are in flight.
InitOrderRace ==
    /\ \E pr \in Prices : \E h, r \in Racers :
         /\ item = ReserveData(NewItem(pr), Identity(h))
         /\ events = <<ReservedEvent(Identity(h))>>
         /\ last = Finish(ArriveReserve(h), 200, "")
         /\ calls = SetToBag({ArriveUnreserve(h)}) (+) SetToBag({ArriveReserve(r)})
    /\ contribs = <<>>
    /\ started = 3
    /\ tally = [s \in Statuses |-> IF s = 200 THEN 1 ELSE 0]
    /\ fundings = 0
    /\ ViewIdle

NextOrderRace ==
    \/ \E c \in InFlight : ReserveFind(c)
    \/ \E c \in InFlight : ReserveUpdate(c)
    \/ \E c \in InFlight : ReserveRefetch(c)
    \/ \E c \in InFlight : UnreserveFind(c)
    \/ \E c \in InFlight : UnreserveUpdate(c)
    \/ \E c \in InFlight : UnreserveRefetch(c)

SpecOrderRace == InitOrderRace /\ [][NextOrderRace]_vars

\* C13: events of one item are published in the order in which their
\* mutations committed.  Here the second reserve can only commit after the
\* unreserve has (its update matches an unreserved row only), so its
\* ITEM_RESERVED must not precede the ITEM_UNRESERVED.
C13_EventsInCommitOrder ==
    \A i, j \in 2..Len(events) :
        i < j => ~(/\ events[i].type = "ITEM_RESERVED"
                   /\ events[j].type = "ITEM_UNRESERVED")

\* ===================================================================
\*        socket.io: rooms, presence counts and delivery of events
\* ===================================================================
\* Browser tabs holding a socket: the wishlist owner's, another user's and a
\* guest's.  The server does not authenticate sockets and treats them alike.
OwnerTab == "ownerTab"

Sessions == {OwnerTab, "kimTab", "guestTab"}

\* The wishlist the item belongs to, owned by OwnerId.
ItemWishlist == "W1"

\* createItem's io.emit
AddedEvent == Ev("ITEM_ADDED", "all", NULL, 0, FALSE)

\* The `viewers:${wishlistId}` event with its count.
ViewersEvent(count) == Ev("viewers", "room", NULL, count, FALSE)

\* What the routes publish for a wishlist.
DomainEvents ==
    {ReservedEvent(l) : l \in {EmailOf(OtherId), "Sam"}}
    \cup {UnreservedEvent, DeletedEvent, AddedEvent}
    \cup {HypeEvent(1)}
    \cup {ContributionEvent(a, f) : a \in 1..MaxMoney, f \in BOOLEAN}

\* io.emit reaches every connected socket, io.to(room).emit the room's.
Recipients(e, w) == IF e.scope = "all" THEN conns ELSE rooms[w]

Sent(e, w, to) == [ev |-> e, w |-> w, to |-> to]

\* Variant: the count still includes the disconnecting socket.
DisconnectCountStale(size) == size

\* count = roomSet.size - 1
DisconnectCount(size) == size - 1

Connect(s) ==
    /\ s \notin conns
    /\ conns' = conns \cup {s}
    /\ wire' = <<>>
    /\ UNCHANGED rooms
    /\ UNCHANGED engineVars
    /\ UNCHANGED viewVars
    /\ UNCHANGED peripheryVars

\* socket.on('join_wishlist')
JoinWishlist(s, w) ==
    /\ s \in conns
    /\ rooms' = [rooms EXCEPT ![w] = @ \cup {s}]
    /\ wire' = <<Sent(ViewersEvent(Cardinality(rooms'[w])), w, rooms'[w])>>
    /\ UNCHANGED conns
    /\ UNCHANGED engineVars
    /\ UNCHANGED viewVars
    /\ UNCHANGED peripheryVars

\* socket.on('leave_wishlist'); the adapter drops a room that became empty.
LeaveWishlist(s, w) ==
    /\ s \in conns
    /\ rooms' = [rooms EXCEPT ![w] = @ \ {s}]
    /\ wire' = <<Sent(ViewersEvent(IF rooms'[w] = {} THEN 0
                                   ELSE Cardinality(rooms'[w])), w, rooms'[w])>>
    /\ UNCHANGED conns
    /\ UNCHANGED engineVars
    /\ UNCHANGED viewVars
    /\ UNCHANGED peripheryVars

\* socket.on('disconnecting'): one count per room of the socket, emitted
\* while the socket is still a member, in the order of socket.rooms (any
\* order here); the socket then leaves its rooms.
Disconnect(s) ==
    /\ s \in conns
    /\ LET mine == {w \in Wishlists : s \in rooms[w]} IN
         \E order \in [1..Cardinality(mine) -> mine] :
            /\ \A i, j \in DOMAIN order : order[i] = order[j] => i = j
            /\ wire' = [i \in DOMAIN order |->
                          Sent(ViewersEvent(DisconnectCount(Cardinality(rooms[order[i]]))),
                               order[i], rooms[order[i]])]
    /\ rooms' = [w \in Wishlists |-> rooms[w] \ {s}]
    /\ conns' = conns \ {s}
    /\ UNCHANGED engineVars
    /\ UNCHANGED viewVars
    /\ UNCHANGED peripheryVars

\* A route publishes event e for wishlist w.
Publish(e, w) ==
    /\ wire' = <<Sent(e, w, Recipients(e, w))>>
    /\ UNCHANGED <<conns, rooms>>
    /\ UNCHANGED engineVars
    /\ UNCHANGED viewVars
    /\ UNCHANGED peripheryVars

InitSockets ==
    /\ item = NoRow
    /\ calls = EmptyBag
    /\ started = 0
    /\ InitRest
    /\ stores = <<>>
    /\ viewer = NoUser
    /\ resps = <<>>
    /\ SocketsIdle
    /\ PeripheryIdle

NextSockets ==
    \/ \E s \in Sessions : Connect(s)
    \/ \E s \in Sessions : \E w \in Wishlists : JoinWishlist(s, w)
    \/ \E s \in Sessions : \E w \in Wishlists : LeaveWishlist(s, w)
    \/ \E s \in Sessions : Disconnect(s)
    \/ \E e \in DomainEvents : \E w \in Wishlists : Publish(e, w)

SpecSockets == InitSockets /\ [][NextSockets]_vars

IsViewers(m) == m.ev.type = "viewers"

\* C14: a domain event published for a wishlist is delivered to exactly the
\* sockets joined to that wishlist's room.
C14_DeliveredToRoomOnly ==
    \A i \in 1..Len(wire) :
        ~IsViewers(wire[i]) => wire[i].to = rooms[wire[i].w]

\* C15: every presence count emitted for a wishlist is the number of sockets
\* in its room once the operation has taken effect, and is never negative.
C15_CountIsMembership ==
    \A i \in 1..Len(wire) :
        IsViewers(wire[i])
            => /\ wire[i].ev.n = Cardinality(rooms[wire[i].w])
               /\ wire[i].ev.n >= 0

\* C15 witness: two sockets had joined a room and one of them disconnected;
\* the count sent is 1, to the room as it was while the socket was leaving.
C15_Witness ==
    /\ Len(wire) = 1 /\ IsViewers(wire[1])
    /\ wire[1].ev.n = 1
    /\ Cardinality(wire[1].to) = 2
    /\ Cardinality(rooms[wire[1].w]) = 1
    /\ \E s \in wire[1].to : s \notin conns

\* C11: nothing delivered to the owner's socket about the owner's wishlist
\* carries a holder, a collected amount or a contributor.
C11_NoSpoilerToOwner ==
    \A i \in 1..Len(wire) :
        (OwnerTab \in wire[i].to /\ wire[i].w = ItemWishlist)
            => /\ wire[i].ev.reservedBy = NULL
               /\ wire[i].ev.type # "CONTRIBUTION_ADDED"

\* ===================================================================
\*        Failure kinds of unreserve and delete
\* ===================================================================
IsNotFound(c) == c.status = 404

\* C21 (as claimed): an unreserve that fails reports NotFound for a missing
\* item, Forbidden for an empty identity, and a kind other than Forbidden
\* when its conditional update matched no row.
C21_UnreserveFailureKinds ==
    [][ \A c \in InFlight :
          (Returning(c) /\ c.op = "unreserve" /\ last'.status # 200)
             => /\ ~item.exists => IsNotFound(last')
                /\ (item.exists /\ c.pc = "u_find")
                      => (Identity(c.req) = "" /\ IsForbidden(last'))
                /\ (item.exists /\ c.pc = "u_update") => ~IsForbidden(last')
      ]_vars

\* C22 (as claimed): a delete removes the item, its contributions included,
\* and publishes ITEM_DELETED only for the owner of the wishlist; it fails
\* with Forbidden for another caller and with NotFound for a missing item,
\* and a failing delete changes neither the rows nor the events.
C22_DeleteContract ==
    [][ \A c \in InFlight :
          (Returning(c) /\ c.op = "delete")
             => IF last'.status = 200
                THEN /\ IsOwner(c.req) /\ item.exists
                     /\ item' = NoRow /\ contribs' = <<>>
                     /\ events' = Append(events, DeletedEvent)
                ELSE /\ UNCHANGED <<item, contribs, events>>
                     /\ ~item.exists => IsNotFound(last')
                     /\ (item.exists /\ ~IsOwner(c.req)) => IsForbidden(last')
      ]_vars

\* ===================================================================
\*        The contribution ledger
\* ===================================================================
\* C23: a contribute that is accepted raises the committed collectedAmount
\* by its whole amount, beyond the price too, and appends one Contribution
\* row that carries the whole amount and the contributor.
C23_AppliedInFull ==
    [][ \A c \in InFlight :
          (Returning(c) /\ c.op = "contribute" /\ last'.status = 200)
             => /\ item'.collectedAmount = item.collectedAmount + c.amount
                /\ contribs' = Append(contribs, ContributionOf(c))
                /\ contribs'[Len(contribs')].amount = c.amount
      ]_vars

\* C23 witness: a contribution has been accepted whose amount took the
\* total beyond the price.
C23_Witness ==
    /\ Returned("contribute") /\ last.status = 200
    /\ item.price # NoPrice
    /\ item.collectedAmount > item.price
    /\ item.collectedAmount - last.amount < item.price

\* ---- the owner's delete and contribute calls are in flight on an item
\* that may already hold a contribution
InitDeleteRace ==
    /\ \E pr \in Prices : \E c0 \in 0..1 :
         /\ pr = NoPrice \/ c0 < pr
         /\ item = [NewItem(pr) EXCEPT !.collectedAmount = c0]
         /\ contribs = IF c0 = 0 THEN <<>>
                       ELSE <<ContributionOf(ArriveContribute(AuthReq(OtherId), c0))>>
    /\ \E n \in 1..(MaxRacers - 1) :
         \E s \in [1..n -> {ArriveContribute(r, a) : r \in Racers, a \in 1..MaxMoney}] :
            /\ calls = SeqToBag(s) (+) SetToBag({ArriveDelete(AuthReq(OwnerId))})
            /\ started = n + 1
    /\ events = <<>>
    /\ last = IdleCall
    /\ tally = [s \in Statuses |-> 0]
    /\ fundings = 0
    /\ ViewIdle

NextDeleteRace ==
    \/ \E c \in InFlight : DeleteFind(c)
    \/ \E c \in InFlight : DeleteRow(c)
    \/ \E c \in InFlight : ContribFind(c)
    \/ \E c \in InFlight : ContribCreate(c)
    \/ \E c \in InFlight : ContribIncrement(c)
    \/ \E c \in InFlight : ContribFund(c)
    \/ \E c \in InFlight : ContribCommit(c)

SpecDeleteRace == InitDeleteRace /\ [][NextDeleteRace]_vars

\* C24: the committed Contribution rows only ever grow by one row appended
\* at the end, the rows already there unchanged, or vanish all together in
\* the step that deletes their item; and whenever a Contribution row exists
\* its item exists.
C24_AppendOnlyNoOrphans ==
    /\ [](contribs # <<>> => item.exists)
    /\ [][ contribs' # contribs
             => \/ /\ item.exists /\ ~item'.exists
                   /\ contribs' = <<>>
                \/ /\ item'.exists
                   /\ Len(contribs') = Len(contribs) + 1
                   /\ SubSeq(contribs', 1, Len(contribs)) = contribs ]_vars

\* C24 witness: a contribute committed while the delete was in flight, the
\* delete then removed the item with its contributions, and a contribute that
\* had passed its first read failed on the foreign key.
C24_Witness ==
    /\ ~item.exists /\ contribs = <<>>
    /\ HasEvent("CONTRIBUTION_ADDED") /\ HasEvent("ITEM_DELETED")
    /\ Returned("contribute") /\ last.error = "Foreign key constraint failed"

\* The request whose statement runs in this step.
Acting(c) == CopiesIn(c, calls') < CopiesIn(c, calls)

C25_State ==
    \A c \in InFlight :
        /\ c.pc = "c_fund" => ~item.isReserved
        /\ c.pc = "c_commit"
              => \/ c.funded /\ ~item.isReserved
                 \/ /\ ~c.funded
                    /\ c.row.isReserved = item.isReserved
                    /\ c.row.reservedBy = item.reservedBy

C25_Step ==
    \A c \in InFlight :
        (Acting(c) /\ c.op = "contribute")
           => /\ item.isReserved
                    => (item'.isReserved /\ item'.reservedBy = item.reservedBy)
              /\ (~item.isReserved /\ item'.isReserved)
                    => (c.funded /\ item'.reservedBy = GroupLabel)

\* C25: no statement of a contribute call takes the item from reserved to
\* unreserved or changes the holder of a reserved item: the funding write
\* runs, and is committed, only on a row that is unreserved, so a holder
\* written by a reserve is never replaced by 'Group contribution'.
C25_ContributeKeepsReservation == []C25_State /\ [][C25_Step]_vars

\* C25 witness: a reserve by a named holder committed between a contribute's
\* first read and its increment; the contribute then reached the price and
\* committed, and the item is still held by that holder.
C25_Witness ==
    /\ Returned("contribute") /\ last.status = 200 /\ ~last.funded
    /\ IsFullyFunded(item)
    /\ item.isReserved /\ item.reservedBy = "Sam"

RECURSIVE SumAmounts(_)
SumAmounts(rows) ==
    IF rows = <<>> THEN 0 ELSE Head(rows).amount + SumAmounts(Tail(rows))

\* C27: in every committed store state the item's collectedAmount is the sum
\* of the amounts of its Contribution rows, 0 when it has none, whatever the
\* interleaving of the contribute calls and whether they commit or roll
\* back; a deleted item leaves no rows.
C27_CollectedIsLedgerSum ==
    IF item.exists
    THEN item.collectedAmount = SumAmounts(contribs)
    ELSE contribs = <<>>

\* C27 witness: the item held a contribution, one of two concurrent
\* contribute calls committed and the other was refused and rolled back.
C27_Witness ==
    /\ item.exists /\ Len(contribs) = 2
    /\ tally[200] = 1
    /\ Returned("contribute") /\ last.status = 400
    /\ item.collectedAmount = contribs[1].amount + contribs[2].amount

\* ---- contribute calls and a manual reserve are in flight on an item with
\* or without a price
InitGiftRace ==
    /\ item \in {NewItem(pr) : pr \in Prices}
    /\ \E n \in 1..(MaxRacers - 1) : \E r \in Racers :
         \E s \in [1..n -> {ArriveContribute(q, a) : q \in Racers, a \in 1..MaxMoney}] :
            /\ calls = SeqToBag(s) (+) SetToBag({ArriveReserve(r)})
            /\ started = n + 1
    /\ InitRest
    /\ ViewIdle

NextGiftRace ==
    \/ \E c \in InFlight : ReserveFind(c)
    \/ \E c \in InFlight : ReserveUpdate(c)
    \/ \E c \in InFlight : ReserveRefetch(c)
    \/ \E c \in InFlight : ContribFind(c)
    \/ \E c \in InFlight : ContribCreate(c)
    \/ \E c \in InFlight : ContribIncrement(c)
    \/ \E c \in InFlight : ContribFund(c)
    \/ \E c \in InFlight : ContribCommit(c)

SpecGiftRace == InitGiftRace /\ [][NextGiftRace]_vars

C29_State ==
    item.price = NoPrice
       => /\ fundings = 0
          /\ \A c \in InFlight : c.pc # "c_fund"
          /\ \A i \in 1..Len(events) :
                events[i].type = "CONTRIBUTION_ADDED" => events[i].flag = FALSE

C29_Step ==
    item.price = NoPrice
       => /\ \A c \in InFlight :
                (Acting(c) /\ c.op = "contribute")
                   => /\ item'.isReserved = item.isReserved
                      /\ item'.reservedBy = item.reservedBy
                      /\ item'.collectedAmount >= item.collectedAmount
                      /\ (Returning(c) /\ last'.status # 200)
                            => (c.pc = "c_find" /\ item.isReserved)
                      /\ (Returning(c) /\ last'.status = 200)
                            => item'.collectedAmount = item.collectedAmount + c.amount
          /\ (~item.isReserved /\ item'.isReserved)
                => \E c \in InFlight :
                      Acting(c) /\ c.op = "reserve" /\ c.pc = "r_update"

\* C29: on an item without a price no statement of a contribute call
\* changes isReserved or reservedBy; a contribute of somebody who is not the
\* owner is refused only when the
\* item has been reserved manually, otherwise it is accepted and raises
\* collectedAmount by its amount; every CONTRIBUTION_ADDED event carries
\* isFullyFunded = false and no funding write is made; the item becomes
\* reserved only by the conditional update of a reserve call.
C29_UnpricedNeverFunds == []C29_State /\ [][C29_Step]_vars

\* C29 witness: on an item without a price two contributions were accepted
\* while the item was free, and a manual reserve then took it.
C29_Witness ==
    /\ item.price = NoPrice /\ calls = EmptyBag
    /\ Len(contribs) = 2 /\ item.collectedAmount >= 2
    /\ Returned("reserve") /\ last.status = 200
    /\ item.isReserved /\ item.reservedBy = Identity(last.req)

\* ===================================================================
\*        PUT /api/shrine: the user's pinned items
\* ===================================================================
MaxShrineOps == 3   \* shrine requests and item deletions of one behaviour
MaxShortList == 2   \* every list of up to MaxShortList ids is a request body

\* Items of the user's own wishlists, an item of somebody else's wishlist
\* and a string that is no UUID.
MyItemIds == {"i1", "i2", "i3", "i4", "i5"}

OtherItemId == "x1"

BadId == "not-a-uuid"

\* The ids the short request bodies are made of.
BodyIds == {"i1", "i2", OtherItemId, BadId}

\* z.string().uuid()
IsUuid(id) == id # BadId

AllMine == <<"i1", "i2", "i3", "i4", "i5">>

\* The bodies of the PUT requests: every short list, and longer lists up to
\* one more than the limit: all own items, in another order, with a
\* duplicate and with a foreign item.
PutBodies ==
    UNION {[1..n -> BodyIds] : n \in 0..MaxShortList}
    \cup {SubSeq(AllMine, 1, n) : n \in 3..(SHRINE_LIMIT + 1)}
    \cup { <<"i4", "i3", "i2", "i1">>,
           <<"i1", "i2", "i3", "i1">>,
           <<"i1", "i2", "i3", OtherItemId>> }

Range(s) == {s[k] : k \in DOMAIN s}

\* Variant: the schema without its .max(SHRINE_LIMIT).
SchemaAcceptsAnyLength(ids) == \A k \in DOMAIN ids : IsUuid(ids[k])

\* shrineSchema.parse: z.array(z.string().uuid()).max(SHRINE_LIMIT)
SchemaAccepts(ids) ==
    /\ Len(ids) <= SHRINE_LIMIT
    /\ \A k \in DOMAIN ids : IsUuid(ids[k])

\* item.findMany where { id: { in: itemIds }, wishlist: { ownerId } }: the
\* rows, one per matching item however often its id is listed.
OwnedItems(ids, mine) == {i \in Range(ids) : i \in mine}

ShrineRest ==
    /\ UNCHANGED engineVars
    /\ UNCHANGED viewVars
    /\ UNCHANGED socketVars
    /\ UNCHANGED <<limiter, client>>

\* The request arrives: the schema is parsed; an empty list skips the
\* ownership query.
PutArrive(ids) ==
    /\ shrine.put.pc \in {"idle", "done"}
    /\ shrine.ops < MaxShrineOps
    /\ shrine' = [shrine EXCEPT
          !.ops = @ + 1,
          !.put = IF ~SchemaAccepts(ids)
                  THEN [ids |-> ids, pc |-> "done", status |-> 400]
                  ELSE [ids |-> ids, status |-> 0,
                        pc |-> IF Len(ids) > 0 THEN "s_owned" ELSE "s_update"]]
    /\ ShrineRest

\* ownedItems.length !== itemIds.length
PutCheckOwned ==
    /\ shrine.put.pc = "s_owned"
    /\ shrine' = [shrine EXCEPT
          !.put = IF Cardinality(OwnedItems(shrine.put.ids, shrine.myItems))
                       # Len(shrine.put.ids)
                  THEN [@ EXCEPT !.pc = "done", !.status = 403]
                  ELSE [@ EXCEPT !.pc = "s_update"]]
    /\ ShrineRest

\* user.update data { shrineItemIds: JSON.stringify(itemIds) }
PutUpdate ==
    /\ shrine.put.pc = "s_update"
    /\ shrine' = [shrine EXCEPT
          !.shrineItemIds = Stringify(shrine.put.ids),
          !.put = [@ EXCEPT !.pc = "done", !.status = 200]]
    /\ ShrineRest

\* The user deletes one of their items (ItemService.deleteItem commits).
DeleteMyItem(i) ==
    /\ i \in shrine.myItems
    /\ shrine.ops < MaxShrineOps
    /\ shrine' = [shrine EXCEPT !.myItems = @ \ {i}, !.ops = @ + 1]
    /\ ShrineRest

InitShrine ==
    /\ item = NoRow
    /\ calls = EmptyBag
    /\ started = 0
    /\ InitRest
    /\ stores = <<>>
    /\ viewer = NoUser
    /\ resps = <<>>
    /\ SocketsIdle
    /\ shrine = [NoShrine EXCEPT !.myItems = MyItemIds]
    /\ LimiterIdle
    /\ ClientIdle

NextShrine ==
    \/ \E ids \in PutBodies : PutArrive(ids)
    \/ PutCheckOwned
    \/ PutUpdate
    \/ \E i \in MyItemIds : DeleteMyItem(i)

SpecShrine == InitShrine /\ [][NextShrine]_vars

\* The stored shrine as the list GET /api/shrine/:userId parses.
StoredShrine == Parse(shrine.shrineItemIds)

NoDuplicates(s) == \A j, k \in DOMAIN s : s[j] = s[k] => j = k

\* The PUT request returns in this step.
PutReturns == shrine'.put.pc = "done" /\ shrine.put.pc # "done"

C26_Bounded ==
    /\ Len(StoredShrine) <= SHRINE_LIMIT
    /\ NoDuplicates(StoredShrine)

C26_Rejections ==
    /\ PutReturns
          => /\ (Len(shrine'.put.ids) > SHRINE_LIMIT) => shrine'.put.status # 200
             /\ (\E k \in DOMAIN shrine'.put.ids :
                    shrine'.put.ids[k] \notin MyItemIds) => shrine'.put.status # 200
             /\ shrine'.put.status # 200
                   => shrine'.shrineItemIds = shrine.shrineItemIds
    /\ shrine'.shrineItemIds # shrine.shrineItemIds
          => (PutReturns /\ shrine'.put.status = 200
                /\ Parse(shrine'.shrineItemIds) = shrine'.put.ids)

\* C26 as stated: in addition, every id a write stores belongs to one of the
\* user's wishlists at the time of the write.
C26_ShrineOwnedAtWrite ==
    /\ []C26_Bounded
    /\ [][ /\ C26_Rejections
           /\ shrine'.shrineItemIds # shrine.shrineItemIds
                 => Range(Parse(shrine'.shrineItemIds)) \subseteq shrine.myItems
       ]_vars

\* C26 (amended): the stored shrine is always a list of at most four ids
\* without duplicates; it changes only when a PUT succeeds, to the list of
\* that request, every id of which was an item of the user's wishlists when
\* the ownership query ran; a body with more than four ids or with an id
\* that is not the user's is rejected and leaves the stored shrine unchanged.
C26_ShrineOwnedWhenChecked ==
    /\ []C26_Bounded
    /\ [](shrine.put.pc = "s_update"
            => Range(shrine.put.ids) \subseteq MyItemIds)
    /\ [][ /\ C26_Rejections
           /\ (shrine.put.pc = "s_owned" /\ shrine'.put.pc = "s_update")
                 => Range(shrine.put.ids) \subseteq shrine.myItems
       ]_vars

\* C26 witness: four items are pinned, the limit, and a request with five
\* ids has been refused.
C26_Witness ==
    /\ Len(StoredShrine) = SHRINE_LIMIT
    /\ shrine.put.pc = "done" /\ shrine.put.status = 400
    /\ Len(shrine.put.ids) > SHRINE_LIMIT
    /\ NoDuplicates(shrine.put.ids)

\* ===================================================================
\*        createRateLimiter: fixed windows per limiter and caller
\* ===================================================================
MaxTime      == 3   \* the clock runs from 0 to MaxTime
MaxWindowMs  == 2   \* windowMs is 1..MaxWindowMs
MaxPerWindow == 2   \* the limiters' max values are 1..MaxPerWindow
MaxRequests  == 3   \* requests of one behaviour

\* keyPrefix of defaultApiLimiter, authLimiter and mutationLimiter
KeyPrefixes == {<<"api">>, <<"auth">>, <<"mutation">>}

\* options.max of the three limiters: the api limiter's is the largest and
\* the auth limiter's the smallest.
LimiterMax(m) ==
    [p \in KeyPrefixes |->
        CASE p = <<"api">>  -> MaxPerWindow
          [] p = <<"auth">> -> 1
          [] OTHER          -> m]

\* Client addresses: an IPv4 one and the IPv6 loopback.
Addresses == {<<"10.0.0.1">>, <<Colon, Colon, "1">>}

\* A request as getClientIp sees it: the x-forwarded-for header (the list of
\* its comma-separated, trimmed entries; absent or empty: <<>>) and req.ip.
ClientRequests ==
    {[forwardedFor |-> <<>>, ip |-> a] : a \in Addresses}
    \cup {[forwardedFor |-> <<a, b>>, ip |-> b] : a, b \in Addresses}

\* forwardedFor.split(',')[0].trim(), or req.ip
GetClientIp(req) ==
    IF req.forwardedFor # <<>> THEN req.forwardedFor[1] ELSE req.ip

BucketKeys == {BucketKey(p, a) : p \in KeyPrefixes, a \in Addresses}

HasBucket(bs, key) == \E b \in bs : b.key = key

BucketOf(bs, key) == CHOOSE b \in bs : b.key = key

\* cleanupExpiredBuckets: every entry with resetAt <= now is deleted
CleanupExpiredBuckets(bs, now) == {b \in bs : ~(b.resetAt <= now)}

\* Variant: the limit is tested with > instead of >=.
AtLimitOffByOne(count, max) == count > max

\* existing.count >= options.max
AtLimit(count, max) == count >= max

LimiterRest ==
    /\ UNCHANGED engineVars
    /\ UNCHANGED viewVars
    /\ UNCHANGED socketVars
    /\ UNCHANGED <<shrine, client>>

\* Date.now() advances.
Tick ==
    /\ limiter.now < MaxTime
    /\ limiter' = [limiter EXCEPT !.now = @ + 1]
    /\ LimiterRest

\* History: a request for `key` has been let through at `now`: it counts in
\* the key's running window if that has not ended, else it opens one.
Admitted(history, key, now, windowMs) ==
    LET rest == {h \in history : h.key # key}
        open == {h \in history : h.key = key /\ now < h.since + windowMs}
    IN  IF open = {}
        THEN rest \cup {[key |-> key, since |-> now, n |-> 1]}
        ELSE rest \cup {[h EXCEPT !.n = @ + 1] : h \in open}

\* The middleware of the limiter with this keyPrefix handles a request.
RateLimit(keyPrefix, req) ==
    /\ limiter.served.n < MaxRequests
    /\ LET now      == limiter.now
           max      == limiter.max[keyPrefix]
           cleaned  == CleanupExpiredBuckets(limiter.buckets, now)
           key      == BucketKey(keyPrefix, GetClientIp(req))
           others   == {b \in cleaned : b.key # key}
           counted  == Admitted(limiter.admitted, key, now, limiter.windowMs)
       IN  IF ~HasBucket(cleaned, key) \/ BucketOf(cleaned, key).resetAt <= now
           THEN limiter' = [limiter EXCEPT
                   !.buckets = others \cup {[key |-> key, count |-> 1,
                                             resetAt |-> now + limiter.windowMs]},
                   !.admitted = counted,
                   !.served = [n |-> @.n + 1, key |-> key, status |-> 200]]
           ELSE LET existing == BucketOf(cleaned, key)
                IN  IF AtLimit(existing.count, max)
                    THEN limiter' = [limiter EXCEPT
                            !.buckets = cleaned,
                            !.served = [n |-> @.n + 1, key |-> key, status |-> 429]]
                    ELSE limiter' = [limiter EXCEPT
                            !.buckets = others \cup {[existing EXCEPT !.count = @ + 1]},
                            !.admitted = counted,
                            !.served = [n |-> @.n + 1, key |-> key, status |-> 200]]
    /\ LimiterRest

InitLimiter ==
    /\ item = NoRow
    /\ calls = EmptyBag
    /\ started = 0
    /\ InitRest
    /\ stores = <<>>
    /\ viewer = NoUser
    /\ resps = <<>>
    /\ SocketsIdle
    /\ ShrineIdle
    /\ ClientIdle
    /\ \E w \in 1..MaxWindowMs : \E m \in 1..MaxPerWindow :
          limiter = [NoLimiter EXCEPT !.windowMs = w, !.max = LimiterMax(m)]

NextLimiter ==
    \/ Tick
    \/ \E p \in KeyPrefixes : \E req \in ClientRequests : RateLimit(p, req)

SpecLimiter == InitLimiter /\ [][NextLimiter]_vars

\* options.max of the limiter a key belongs to.
MaxOfKey(key) == limiter.max[<<key[1]>>]

\* A request is answered in this step.
Served == limiter'.served.n # limiter.served.n

C30_State ==
    /\ \A h \in limiter.admitted : h.n <= MaxOfKey(h.key)
    /\ \A a, b \in limiter.buckets : a.key = b.key => a = b
    /\ \A b \in limiter.buckets : b.count >= 1 /\ b.count <= MaxOfKey(b.key)

C30_Step ==
    Served =>
       LET key  == limiter'.served.key
           now  == limiter.now
           had  == HasBucket(limiter.buckets, key)
           live == had /\ ~(BucketOf(limiter.buckets, key).resetAt <= now)
       IN  /\ limiter'.served.status \in {200, 429}
           /\ limiter'.served.status = 429
                 <=> (live /\ BucketOf(limiter.buckets, key).count >= MaxOfKey(key))
           /\ limiter'.served.status = 429
                 => BucketOf(limiter'.buckets, key) = BucketOf(limiter.buckets, key)
           /\ ~live
                 => BucketOf(limiter'.buckets, key) =
                       [key |-> key, count |-> 1,
                        resetAt |-> now + limiter.windowMs]
           /\ (live /\ limiter'.served.status = 200)
                 => BucketOf(limiter'.buckets, key) =
                       [BucketOf(limiter.buckets, key) EXCEPT !.count = @ + 1]
           /\ \A other \in BucketKeys \ {key} :
                 /\ HasBucket(limiter'.buckets, other)
                       => /\ HasBucket(limiter.buckets, other)
                          /\ BucketOf(limiter'.buckets, other)
                                = BucketOf(limiter.buckets, other)
                 /\ (HasBucket(limiter.buckets, other)
                        /\ ~HasBucket(limiter'.buckets, other))
                       => BucketOf(limiter.buckets, other).resetAt <= now

\* C30: for every limiter and caller key, at most max requests are let
\* through in a window of windowMs that starts when the key's bucket is
\* created; a request answered 429 leaves the key's bucket as it was; a
\* request that finds no bucket or arrives at or after resetAt is let
\* through and starts a bucket with count 1 and resetAt = now + windowMs; a
\* request changes no bucket of another limiter or caller, other than
\* dropping those that have expired.
C30_FixedWindowLimit == []C30_State /\ [][C30_Step]_vars

\* C30 witness: the auth limiter has let max requests of one caller through
\* and answered the next one 429 within the window, while the same caller
\* has a bucket with another limiter.
C30_Witness ==
    /\ limiter.served.status = 429
    /\ limiter.served.key[1] = "auth"
    /\ BucketOf(limiter.buckets, limiter.served.key).count
          = MaxOfKey(limiter.served.key)
    /\ limiter.now < BucketOf(limiter.buckets, limiter.served.key).resetAt
    /\ \E b \in limiter.buckets :
          b.key # limiter.served.key /\ Tail(b.key) = Tail(limiter.served.key)

\* ===================================================================
\*        WishlistPage: optimistic updates and the socket handler
\* ===================================================================
\* The fields of the store's row that the page shows.
Shown(row) == [isReserved |-> row.isReserved, reservedBy |-> row.reservedBy]

\* reserveItem's optimistic update
OptimisticReserve(it, who) ==
    [it EXCEPT !.isReserved = TRUE, !.reservedBy = who]

\* The `wishlist:${id}` handler applied to the page's copy of the item.
OnWishlistEvent(it, e) ==
    CASE e.type \in {"ITEM_RESERVED", "ITEM_UNRESERVED"}
            -> [it EXCEPT !.isReserved = e.flag, !.reservedBy = e.reservedBy]
      [] e.type = "CONTRIBUTION_ADDED"
            -> [it EXCEPT !.isReserved = IF e.flag THEN TRUE ELSE @,
                          !.reservedBy = IF e.flag THEN GroupLabel ELSE @]
      [] OTHER -> it

\* The viewer's request is still being handled by the server.
RequestInFlight == \E c \in InFlight : c.req = client.req

\* The server answered the viewer's reserve with success: in this scenario
\* that is when it published ITEM_RESERVED with the viewer's label.
ReserveSucceeded ==
    \E i \in 1..Len(events) :
        /\ events[i].type = "ITEM_RESERVED"
        /\ events[i].reservedBy = Identity(client.req)

\* The socket delivers the next published event to the page. The viewer's
\* socket stays connected, ITEM_RESERVED is sent with io.emit, and one
\* socket delivers in the order of emission.
DeliverEvent ==
    /\ client.seen < Len(events)
    /\ client' = [client EXCEPT
          !.seen = @ + 1,
          !.item = OnWishlistEvent(@, events[client.seen + 1])]
    /\ UNCHANGED engineVars
    /\ UNCHANGED viewVars
    /\ UNCHANGED socketVars
    /\ UNCHANGED <<shrine, limiter>>

\* The response of the viewer's reserve reaches the page: `await axios.post`
\* returns, or throws and the catch puts previousItem back.
ReceiveResponse ==
    /\ client.pending
    /\ ~RequestInFlight
    /\ client' = [client EXCEPT
          !.pending = FALSE,
          !.item = IF ReserveSucceeded THEN @ ELSE client.previousItem]
    /\ UNCHANGED engineVars
    /\ UNCHANGED viewVars
    /\ UNCHANGED socketVars
    /\ UNCHANGED <<shrine, limiter>>

\* The page shows the unreserved item; the viewer has clicked Reserve (the
\* optimistic update is applied, the request is on its way) while another
\* user's reserve is on its way too.
InitClient ==
    /\ item \in {NewItem(pr) : pr \in Prices}
    /\ \E mine, theirs \in Racers :
         /\ mine # theirs
         /\ calls = SetToBag({ArriveReserve(mine)}) (+) SetToBag({ArriveReserve(theirs)})
         /\ client = [NoClient EXCEPT
               !.previousItem = Shown(item),
               !.item = OptimisticReserve(Shown(item), Identity(mine)),
               !.req = mine,
               !.pending = TRUE]
    /\ started = 2
    /\ InitRest
    /\ stores = <<>>
    /\ viewer = NoUser
    /\ resps = <<>>
    /\ SocketsIdle
    /\ ShrineIdle
    /\ LimiterIdle

NextClient ==
    \/ \E c \in InFlight : ReserveFind(c)
    \/ \E c \in InFlight : ReserveUpdate(c)
    \/ \E c \in InFlight : ReserveRefetch(c)
    \/ DeliverEvent
    \/ ReceiveResponse

SpecClient == InitClient /\ [][NextClient]_vars

\* Every request has returned, its response has been handled and every
\* published event has been delivered.
Settled ==
    /\ calls = EmptyBag
    /\ ~client.pending
    /\ client.seen = Len(events)

\* C28 (as claimed): once the viewer's request has returned and all events
\* have been delivered, the isReserved and reservedBy the page holds for the
\* item are the store's.
C28_CacheConverges == Settled => client.item = Shown(item)

====
